---- MODULE Spec2Model ----
(***************************************************************************)
(* Model of the AWS RESTJSON composite encoder                             *)
(* (private/protocol/restjson/encode.go).                                  *)
(*                                                                         *)
(* The Encoder holds the request method, a REST (path/query/header)        *)
(* encoder, a JSON body encoder and a latched error.  Each Set* method     *)
(* switches on the target and forwards the call to one of the two          *)
(* sub-encoders or latches an error; Encode finalizes both sub-encoders    *)
(* and merges their results.                                               *)
(*                                                                         *)
(* The two sub-encoders live in other packages (protocol/rest and          *)
(* protocol/json).  They are modelled by the calls they have received and  *)
(* by a finalize step whose success is an input of Encode.                 *)
(***************************************************************************)
EXTENDS Integers, Sequences, FiniteSets, TLC

\* Number of Set* calls the caller issues before Encode.
MaxCalls == 2

\* req.Method values the encoder can be constructed with.
Methods == {"GET", "POST", "get"}

\* protocol.Target
Targets == {"Path", "Query", "Header", "Headers", "Body", "Payload"}

\* The (key, value, metadata) triples the caller passes to a Set* call.
CallArgs == { [k |-> "id", v |-> "42", meta |-> "m0"],
              [k |-> "name", v |-> "alice", meta |-> "m1"] }

Ops == {"SetValue", "SetStream", "SetList", "SetMap", "SetFields"}

\* A nil error, a nil *http.Request and a nil io.ReadSeeker.
NoErr == [fmt |-> "nil", args |-> <<>>]
Nil == [kind |-> "nil"]

\* Values of the bookkeeping variables before the first call.
NoCall == [op |-> "none", t |-> "none", k |-> "none", v |-> "none", meta |-> "none"]
NotCalled == [called |-> FALSE]
NoResult == [returned |-> FALSE]

\* The second Encoder after construction: its latch, the arguments of its
\* latest call and where each of its calls went.
NoTwin == [err |-> NoErr, lastCall |-> NoCall, dests |-> <<>>]

VARIABLES
    method,     \* Encoder.method
    err,        \* Encoder.err, the error latch
    reqCalls,   \* calls received by Encoder.reqEncoder, in order
    bodyCalls,  \* calls received by Encoder.bodyEncoder, in order
    ncalls,     \* number of Set* calls the caller has made
    lastCall,   \* the arguments of the latest Set* call
    reqOut,     \* what reqEncoder.Encode() returned inside Encode
    jsonOut,    \* what bodyEncoder.Encode() returned inside Encode
    result,     \* what Encode returned to the caller
    twin        \* a second Encoder given the same operations and targets

vars == <<method, err, reqCalls, bodyCalls, ncalls, lastCall, reqOut, jsonOut, result, twin>>

Call(op, t, a) == [op |-> op, t |-> t, k |-> a.k, v |-> a.v, meta |-> a.meta]

(***************************************************************************)
(* Errors, as fmt.Errorf builds them: the format and the arguments given.  *)
(***************************************************************************)
SetValueErr(t, k) == [fmt |-> "unknown SetValue restjson encode target, %s, %s", args |-> <<t, k>>]
SetStreamErr(t, k) == [fmt |-> "invalid target %s, for SetStream, must be PayloadTarget", args |-> <<t>>]
SetListErr(t, k) == [fmt |-> "unknown SetList restjson encode target, %s, %s", args |-> <<t, k>>]
SetMapErr(t, k) == [fmt |-> "unknown SetMap restjson encode target, %s, %s", args |-> <<t, k>>]
SetFieldsErr(t, k) == [fmt |-> "unknown SetMarshaler restjson encode target, %s, %s", args |-> <<t, k>>]
AmbiguousErr == [fmt |-> "unexpected JSON body and request payload for AWSMarshaler", args |-> <<>>]

\* Errors of the sub-encoders' own Encode.
RestEncodeErr == [fmt |-> "rest encode error", args |-> <<>>]
JSONEncodeErr == [fmt |-> "json encode error", args |-> <<>>]

(***************************************************************************)
(* The switch of each Set* method: where a target goes.                    *)
(***************************************************************************)
LatchedMutNever(e) == FALSE

\* if e.err != nil { return }
Latched(e) == e # NoErr

SetValueDestMutNoRedirect(m, t) ==
    CASE t \in {"Path", "Query", "Header"} -> "reqEncoder"
      [] t \in {"Body", "Payload"} -> "bodyEncoder"
      [] OTHER -> "default"

SetValueDestMutAcceptAll(m, t) ==
    CASE t \in {"Path", "Query", "Header", "Headers"} -> "reqEncoder"
      [] t \in {"Body", "Payload"} -> IF m = "GET" THEN "reqEncoder" ELSE "bodyEncoder"
      [] OTHER -> "default"

SetValueDestMutAnyCase(m, t) ==
    CASE t \in {"Path", "Query", "Header"} -> "reqEncoder"
      [] t \in {"Body", "Payload"} -> IF m \in {"GET", "get"} THEN "reqEncoder" ELSE "bodyEncoder"
      [] OTHER -> "default"

SetValueDest(m, t) ==
    CASE t \in {"Path", "Query", "Header"} -> "reqEncoder"
      [] t \in {"Body", "Payload"} -> IF m = "GET" THEN "reqEncoder" ELSE "bodyEncoder"
      [] OTHER -> "default"

SetStreamDestMutBody(t) ==
    CASE t = "Payload" -> "reqEncoder"
      [] t = "Body" -> "bodyEncoder"
      [] OTHER -> "default"

SetStreamDest(t) ==
    CASE t = "Payload" -> "reqEncoder"
      [] OTHER -> "default"

SetListDestMutQuery(t) ==
    CASE t \in {"Header"} -> "reqEncoder"
      [] t \in {"Body", "Query"} -> "bodyEncoder"
      [] OTHER -> "default"

SetListDest(t) ==
    CASE t \in {"Header", "Query"} -> "reqEncoder"
      [] t = "Body" -> "bodyEncoder"
      [] OTHER -> "default"

SetMapDestMutHeaders(t) ==
    CASE t = "Query" -> "reqEncoder"
      [] t \in {"Body", "Headers"} -> "bodyEncoder"
      [] OTHER -> "default"

SetMapDest(t) ==
    CASE t \in {"Query", "Headers"} -> "reqEncoder"
      [] t = "Body" -> "bodyEncoder"
      [] OTHER -> "default"

SetFieldsDestMutPayload(t) ==
    CASE t = "Payload" -> "reqEncoder"
      [] t = "Body" -> "bodyEncoder"
      [] OTHER -> "default"

SetFieldsDest(t) ==
    CASE t \in {"Payload", "Body"} -> "bodyEncoder"
      [] OTHER -> "default"

RouteMutByKey(dest, c, e) ==
    CASE dest = "reqEncoder" /\ c.k # "name" ->
            /\ reqCalls' = Append(reqCalls, c)
            /\ UNCHANGED <<bodyCalls, err>>
      [] dest = "bodyEncoder" \/ (dest = "reqEncoder" /\ c.k = "name") ->
            /\ bodyCalls' = Append(bodyCalls, c)
            /\ UNCHANGED <<reqCalls, err>>
      [] OTHER ->
            /\ err' = e
            /\ UNCHANGED <<reqCalls, bodyCalls>>

RouteMutRetag(dest, c, e) ==
    CASE dest = "reqEncoder" ->
            /\ reqCalls' = Append(reqCalls,
                    [c EXCEPT !.t = IF c.t \in {"Body", "Payload"} THEN "Query" ELSE c.t])
            /\ UNCHANGED <<bodyCalls, err>>
      [] dest = "bodyEncoder" ->
            /\ bodyCalls' = Append(bodyCalls, c)
            /\ UNCHANGED <<reqCalls, err>>
      [] OTHER ->
            /\ err' = e
            /\ UNCHANGED <<reqCalls, bodyCalls>>

\* The body of a Set* method after the latch check: forward the call
\* untouched to the chosen sub-encoder, or latch the error.
Route(dest, c, e) ==
    CASE dest = "reqEncoder" ->
            /\ reqCalls' = Append(reqCalls, c)
            /\ UNCHANGED <<bodyCalls, err>>
      [] dest = "bodyEncoder" ->
            /\ bodyCalls' = Append(bodyCalls, c)
            /\ UNCHANGED <<reqCalls, err>>
      [] OTHER ->
            /\ err' = e
            /\ UNCHANGED <<reqCalls, bodyCalls>>

\* The caller's side of a Set* call: one more call, on an encoder that has
\* not been consumed by Encode.
Called(c) ==
    /\ result = NoResult
    /\ ncalls < MaxCalls
    /\ ncalls' = ncalls + 1
    /\ lastCall' = c
    /\ UNCHANGED <<method, reqOut, jsonOut, result>>

Invoke(c) ==
    /\ Called(c)
    /\ UNCHANGED twin

SetValue(t, a) ==
    /\ Invoke(Call("SetValue", t, a))
    /\ IF Latched(err)
         THEN UNCHANGED <<err, reqCalls, bodyCalls>>
         ELSE Route(SetValueDest(method, t), Call("SetValue", t, a), SetValueErr(t, a.k))

SetStream(t, a) ==
    /\ Invoke(Call("SetStream", t, a))
    /\ IF Latched(err)
         THEN UNCHANGED <<err, reqCalls, bodyCalls>>
         ELSE Route(SetStreamDest(t), Call("SetStream", t, a), SetStreamErr(t, a.k))

SetList(t, a) ==
    /\ Invoke(Call("SetList", t, a))
    /\ IF Latched(err)
         THEN UNCHANGED <<err, reqCalls, bodyCalls>>
         ELSE Route(SetListDest(t), Call("SetList", t, a), SetListErr(t, a.k))

SetMapMutNoLatchCheck(t, a) ==
    /\ Invoke(Call("SetMap", t, a))
    /\ Route(SetMapDest(t), Call("SetMap", t, a), SetMapErr(t, a.k))

SetMap(t, a) ==
    /\ Invoke(Call("SetMap", t, a))
    /\ IF Latched(err)
         THEN UNCHANGED <<err, reqCalls, bodyCalls>>
         ELSE Route(SetMapDest(t), Call("SetMap", t, a), SetMapErr(t, a.k))

SetFields(t, a) ==
    /\ Invoke(Call("SetFields", t, a))
    /\ IF Latched(err)
         THEN UNCHANGED <<err, reqCalls, bodyCalls>>
         ELSE Route(SetFieldsDest(t), Call("SetFields", t, a), SetFieldsErr(t, a.k))

(***************************************************************************)
(* The sub-encoders' Encode.                                               *)
(***************************************************************************)
IsStream(c) == c.op = "SetStream"
NotStream(c) == c.op # "SetStream"

Last(s) == s[Len(s)]

\* The values the REST encoder writes to the query string: those tagged
\* Query, and the Body/Payload scalars it is handed under GET.
InQuery(c) ==
    \/ c.op # "SetStream" /\ c.t = "Query"
    \/ c.op = "SetValue" /\ c.t \in {"Body", "Payload"}

Param(c) == [k |-> c.k, v |-> c.v]

QueryString(calls) ==
    LET q == SelectSeq(calls, InQuery)
    IN [i \in 1..Len(q) |-> Param(q[i])]

\* rest.Encoder.Encode: the request with the values set on it, and the
\* payload stream if one was set; or an error.
RestEncode(calls, fails) ==
    IF fails
      THEN [called |-> TRUE, req |-> Nil, payloadBody |-> Nil, err |-> RestEncodeErr]
      ELSE [called |-> TRUE,
            req |-> [kind |-> "request", values |-> SelectSeq(calls, NotStream),
                     query |-> QueryString(calls)],
            payloadBody |-> IF SelectSeq(calls, IsStream) = <<>>
                              THEN Nil
                              ELSE [kind |-> "payload", stream |-> Last(SelectSeq(calls, IsStream)).v],
            err |-> NoErr]

\* json.Encoder.Encode: the document of the fields set, nil when nothing
\* was set; or an error.
JSONEncode(calls, fails) ==
    IF fails
      THEN [called |-> TRUE, jsonBody |-> Nil, err |-> JSONEncodeErr]
      ELSE [called |-> TRUE,
            jsonBody |-> IF calls = <<>> THEN Nil ELSE [kind |-> "json", fields |-> calls],
            err |-> NoErr]

(***************************************************************************)
(* Encoder.Encode                                                          *)
(***************************************************************************)
AmbiguousMutNever(havePayload, haveJSON) == FALSE

AmbiguousMutNeither(havePayload, haveJSON) == (havePayload = haveJSON) /\ ~haveJSON

\* havePayload == haveJSON && haveJSON
Ambiguous(havePayload, haveJSON) == (havePayload = haveJSON) /\ haveJSON

MergeBodyMutNoFallback(payloadBody, jsonBody) == payloadBody

\* body := payloadBody; if body == nil { body = jsonBody }
MergeBody(payloadBody, jsonBody) ==
    IF payloadBody = Nil THEN jsonBody ELSE payloadBody

Return(req, body, e) == [returned |-> TRUE, req |-> req, body |-> body, err |-> e]

EncodeMutBothFinalized(restFails, jsonFails) ==
    /\ result = NoResult
    /\ LET ro == RestEncode(reqCalls, restFails)
           jo == JSONEncode(bodyCalls, jsonFails)
       IN /\ reqOut' = ro
          /\ jsonOut' = jo
          /\ result' =
               IF ro.err # NoErr
                 THEN Return(Nil, Nil, ro.err)
                 ELSE IF jo.err # NoErr
                        THEN Return(Nil, Nil, jo.err)
                        ELSE IF Ambiguous(ro.payloadBody # Nil, jo.jsonBody # Nil)
                               THEN Return(Nil, Nil, AmbiguousErr)
                               ELSE Return(ro.req, MergeBody(ro.payloadBody, jo.jsonBody), jo.err)
    /\ UNCHANGED <<method, err, reqCalls, bodyCalls, ncalls, lastCall, twin>>

EncodeMutClearsLatch(restFails, jsonFails) ==
    /\ result = NoResult
    /\ LET ro == RestEncode(reqCalls, restFails)
           jo == JSONEncode(bodyCalls, jsonFails)
       IN IF ro.err # NoErr
            THEN /\ reqOut' = ro
                 /\ jsonOut' = NotCalled
                 /\ result' = Return(Nil, Nil, ro.err)
            ELSE /\ reqOut' = ro
                 /\ jsonOut' = jo
                 /\ result' =
                      IF jo.err # NoErr
                        THEN Return(Nil, Nil, jo.err)
                        ELSE IF Ambiguous(ro.payloadBody # Nil, jo.jsonBody # Nil)
                               THEN Return(Nil, Nil, AmbiguousErr)
                               ELSE Return(ro.req, MergeBody(ro.payloadBody, jo.jsonBody), jo.err)
    /\ err' = NoErr
    /\ UNCHANGED <<method, reqCalls, bodyCalls, ncalls, lastCall, twin>>

Encode(restFails, jsonFails) ==
    /\ result = NoResult
    /\ LET ro == RestEncode(reqCalls, restFails)
           jo == JSONEncode(bodyCalls, jsonFails)
       IN IF ro.err # NoErr
            THEN /\ reqOut' = ro
                 /\ jsonOut' = NotCalled
                 /\ result' = Return(Nil, Nil, ro.err)
            ELSE /\ reqOut' = ro
                 /\ jsonOut' = jo
                 /\ result' =
                      IF jo.err # NoErr
                        THEN Return(Nil, Nil, jo.err)
                        ELSE IF Ambiguous(ro.payloadBody # Nil, jo.jsonBody # Nil)
                               THEN Return(Nil, Nil, AmbiguousErr)
                               ELSE Return(ro.req, MergeBody(ro.payloadBody, jo.jsonBody), jo.err)
    /\ UNCHANGED <<method, err, reqCalls, bodyCalls, ncalls, lastCall, twin>>

(***************************************************************************)
(* NewEncoder and the specification                                        *)
(***************************************************************************)
Init ==
    /\ method \in Methods
    /\ err = NoErr
    /\ reqCalls = <<>>
    /\ bodyCalls = <<>>
    /\ ncalls = 0
    /\ lastCall = NoCall
    /\ reqOut = NotCalled
    /\ jsonOut = NotCalled
    /\ result = NoResult
    /\ twin = NoTwin

Next ==
    \/ \E t \in Targets, a \in CallArgs : SetValue(t, a)
    \/ \E t \in Targets, a \in CallArgs : SetStream(t, a)
    \/ \E t \in Targets, a \in CallArgs : SetList(t, a)
    \/ \E t \in Targets, a \in CallArgs : SetMap(t, a)
    \/ \E t \in Targets, a \in CallArgs : SetFields(t, a)
    \/ \E restFails \in BOOLEAN, jsonFails \in BOOLEAN : Encode(restFails, jsonFails)

Spec == Init /\ [][Next]_vars

(***************************************************************************)
(* Two Encoders driven side by side: both are constructed with the same    *)
(* method and receive the same operations with the same targets; the keys, *)
(* values and metadata they are given are chosen independently.            *)
(***************************************************************************)
\* The switch of the method called.
DestOf(op, m, t) ==
    CASE op = "SetValue" -> SetValueDest(m, t)
      [] op = "SetStream" -> SetStreamDest(t)
      [] op = "SetList" -> SetListDest(t)
      [] op = "SetMap" -> SetMapDest(t)
      [] op = "SetFields" -> SetFieldsDest(t)

\* The error of the method's default branch.
ErrOf(op, t, k) ==
    CASE op = "SetValue" -> SetValueErr(t, k)
      [] op = "SetStream" -> SetStreamErr(t, k)
      [] op = "SetList" -> SetListErr(t, k)
      [] op = "SetMap" -> SetMapErr(t, k)
      [] op = "SetFields" -> SetFieldsErr(t, k)

\* A Set* method run on the second Encoder: a no-op when latched, else the
\* switch's branch.
TwinSet(tw, op, m, t, b) ==
    IF Latched(tw.err)
      THEN [tw EXCEPT !.lastCall = Call(op, t, b), !.dests = Append(@, "noop")]
      ELSE [err |-> IF DestOf(op, m, t) = "default" THEN ErrOf(op, t, b.k) ELSE tw.err,
            lastCall |-> Call(op, t, b),
            dests |-> Append(tw.dests, DestOf(op, m, t))]

PairSet(op, t, a, b) ==
    /\ Called(Call(op, t, a))
    /\ IF Latched(err)
         THEN UNCHANGED <<err, reqCalls, bodyCalls>>
         ELSE Route(DestOf(op, method, t), Call(op, t, a), ErrOf(op, t, a.k))
    /\ twin' = TwinSet(twin, op, method, t, b)

PairSetValue(t, a, b) == PairSet("SetValue", t, a, b)
PairSetStream(t, a, b) == PairSet("SetStream", t, a, b)
PairSetList(t, a, b) == PairSet("SetList", t, a, b)
PairSetMap(t, a, b) == PairSet("SetMap", t, a, b)
PairSetFields(t, a, b) == PairSet("SetFields", t, a, b)

NextPair ==
    \/ \E t \in Targets, a \in CallArgs, b \in CallArgs : PairSetValue(t, a, b)
    \/ \E t \in Targets, a \in CallArgs, b \in CallArgs : PairSetStream(t, a, b)
    \/ \E t \in Targets, a \in CallArgs, b \in CallArgs : PairSetList(t, a, b)
    \/ \E t \in Targets, a \in CallArgs, b \in CallArgs : PairSetMap(t, a, b)
    \/ \E t \in Targets, a \in CallArgs, b \in CallArgs : PairSetFields(t, a, b)

SpecPair == Init /\ [][NextPair]_vars

TypeOK ==
    /\ method \in Methods
    /\ ncalls \in 0..MaxCalls
    /\ Len(reqCalls) + Len(bodyCalls) <= ncalls
    /\ lastCall.op \in Ops \cup {"none"}
    /\ \A i \in 1..Len(reqCalls) : reqCalls[i].op \in Ops /\ reqCalls[i].t \in Targets
    /\ \A i \in 1..Len(bodyCalls) : bodyCalls[i].op \in Ops /\ bodyCalls[i].t \in Targets

(***************************************************************************)
(* Properties                                                              *)
(***************************************************************************)
\* A step in which the caller made a Set* call.
SetStep == ncalls' = ncalls + 1

Forwarded == reqCalls \o bodyCalls

HasPayloadStream ==
    \E i \in 1..Len(reqCalls) : reqCalls[i].op = "SetStream" /\ reqCalls[i].t = "Payload"

BothFinalized ==
    /\ result.returned
    /\ reqOut.called /\ reqOut.err = NoErr
    /\ jsonOut.called /\ jsonOut.err = NoErr

\* C1: when a Set* call has latched a routing error, the following Encode
\* returns that latched error and neither a request nor a body.
C1_LatchedErrorReturned ==
    (result.returned /\ err # NoErr) => result = Return(Nil, Nil, err)

\* C2: whenever both sub-encoders finalize without error and both produce a
\* body, Encode returns the ambiguous-body error with a nil request and a
\* nil body.
C2_NeverBothBodies ==
    (BothFinalized /\ reqOut.payloadBody # Nil /\ jsonOut.jsonBody # Nil)
        => result = Return(Nil, Nil, AmbiguousErr)

C2_Witness ==
    /\ BothFinalized
    /\ reqOut.payloadBody # Nil
    /\ jsonOut.jsonBody # Nil
    /\ result.err = AmbiguousErr

\* C3: once the latch is set, every Set* call leaves the calls received by
\* both sub-encoders and the latch unchanged.
C3_LatchedIsNoOp ==
    [][(SetStep /\ err # NoErr)
          => (reqCalls' = reqCalls /\ bodyCalls' = bodyCalls /\ err' = err)]_vars

C3_Witness ==
    /\ ncalls = 2
    /\ err = SetMapErr("Header", "id")
    /\ lastCall.op = "SetValue" /\ lastCall.t = "Query"
    /\ Forwarded = <<>>

\* C4: an unlatched SetValue with target Body or Payload goes to the REST
\* encoder only when the method is exactly GET, and to the JSON encoder only
\* for every other method.
C4_ScalarBodyRedirect ==
    [][(SetStep /\ err = NoErr /\ lastCall'.op = "SetValue"
          /\ lastCall'.t \in {"Body", "Payload"})
          => IF method = "GET"
               THEN reqCalls' = Append(reqCalls, lastCall') /\ bodyCalls' = bodyCalls
               ELSE bodyCalls' = Append(bodyCalls, lastCall') /\ reqCalls' = reqCalls]_vars

C4_Witness ==
    /\ method = "get"
    /\ lastCall.op = "SetValue" /\ lastCall.t = "Payload"
    /\ reqCalls = <<>>
    /\ bodyCalls = <<lastCall>>

\* The targets outside each operation's valid set.
InvalidTargets(op) ==
    CASE op = "SetValue" -> {"Headers"}
      [] op = "SetStream" -> Targets \ {"Payload"}
      [] op = "SetList" -> {"Path", "Headers", "Payload"}
      [] op = "SetMap" -> {"Path", "Header", "Payload"}
      [] op = "SetFields" -> {"Path", "Query", "Header", "Headers"}

\* C5: an unlatched Set* call with a target outside the operation's valid
\* set sets the latch and leaves both sub-encoders unmodified.
C5_InvalidTargetLatches ==
    [][(SetStep /\ err = NoErr /\ lastCall'.t \in InvalidTargets(lastCall'.op))
          => (err' # NoErr /\ reqCalls' = reqCalls /\ bodyCalls' = bodyCalls)]_vars

C5_Witness ==
    /\ lastCall.op = "SetValue" /\ lastCall.t = "Headers"
    /\ ncalls = 2
    /\ err = SetValueErr("Headers", lastCall.k)
    /\ Len(Forwarded) = 1

\* C6: for every method, an unlatched SetStream with target Payload goes to
\* the REST encoder and not to the JSON encoder; with any other target it
\* latches an error and reaches neither.
C6_StreamRouting ==
    [][(SetStep /\ err = NoErr /\ lastCall'.op = "SetStream")
          => IF lastCall'.t = "Payload"
               THEN /\ reqCalls' = Append(reqCalls, lastCall')
                    /\ bodyCalls' = bodyCalls
               ELSE /\ err' # NoErr
                    /\ reqCalls' = reqCalls
                    /\ bodyCalls' = bodyCalls]_vars

C6_Witness ==
    /\ method = "GET"
    /\ lastCall.op = "SetStream" /\ lastCall.t = "Payload"
    /\ reqCalls = <<lastCall>>
    /\ bodyCalls = <<>>
    /\ err = NoErr

\* C7: for every method, GET included, an unlatched SetList or SetMap with
\* target Body and an unlatched SetFields with target Body or Payload goes
\* to the JSON encoder and not to the REST encoder.
C7_NoRedirectForCollections ==
    [][(SetStep /\ err = NoErr
          /\ \/ lastCall'.op \in {"SetList", "SetMap"} /\ lastCall'.t = "Body"
             \/ lastCall'.op = "SetFields" /\ lastCall'.t \in {"Body", "Payload"})
          => (bodyCalls' = Append(bodyCalls, lastCall') /\ reqCalls' = reqCalls)]_vars

C7_Witness ==
    /\ method = "GET"
    /\ lastCall.op = "SetFields" /\ lastCall.t = "Payload"
    /\ bodyCalls = <<lastCall>>
    /\ reqCalls = <<>>

\* C8: for every method, an unlatched SetValue with target Path, Query or
\* Header, SetList with target Header or Query, or SetMap with target Query
\* or Headers goes to the REST encoder, not to the JSON encoder, and does
\* not set the latch.
C8_StructuralTargets ==
    [][(SetStep /\ err = NoErr
          /\ \/ lastCall'.op = "SetValue" /\ lastCall'.t \in {"Path", "Query", "Header"}
             \/ lastCall'.op = "SetList" /\ lastCall'.t \in {"Header", "Query"}
             \/ lastCall'.op = "SetMap" /\ lastCall'.t \in {"Query", "Headers"})
          => (/\ reqCalls' = Append(reqCalls, lastCall')
              /\ bodyCalls' = bodyCalls
              /\ err' = NoErr)]_vars

C8_Witness ==
    /\ lastCall.op = "SetList" /\ lastCall.t = "Query"
    /\ Len(reqCalls) = 2
    /\ reqCalls[2] = lastCall
    /\ bodyCalls = <<>>
    /\ err = NoErr

\* C9: when both sub-encoders finalize without error and at most one of
\* them produces a body, Encode returns the finalized request with no error
\* and the payload reader if present, else the JSON body if present, else
\* no body.
C9_MergedBody ==
    (BothFinalized /\ ~(reqOut.payloadBody # Nil /\ jsonOut.jsonBody # Nil))
        => result = Return(reqOut.req,
                           IF reqOut.payloadBody # Nil THEN reqOut.payloadBody
                           ELSE IF jsonOut.jsonBody # Nil THEN jsonOut.jsonBody
                           ELSE Nil,
                           NoErr)

C9_Witness ==
    /\ BothFinalized
    /\ reqOut.payloadBody = Nil
    /\ jsonOut.jsonBody # Nil
    /\ result.err = NoErr
    /\ result.req = reqOut.req
    /\ result.body = jsonOut.jsonBody

\* C10 as stated: under a non-GET method, when a SetStream with target
\* Payload and a call routed to the JSON encoder were both made and no
\* routing error is latched, Encode fails with the ambiguous-body error.
C10_StreamAndBodyAmbiguous ==
    (result.returned /\ method # "GET" /\ err = NoErr
        /\ HasPayloadStream /\ bodyCalls # <<>>)
        => result.err = AmbiguousErr

\* C10 amended: under a non-GET method, when a SetStream with target Payload
\* and a call routed to the JSON encoder were both made, no routing error is
\* latched and both sub-encoders finalize without error, Encode fails with
\* the ambiguous-body error and returns neither a request nor a body.
C10_StreamAndBodyAmbiguousWhenFinalized ==
    (BothFinalized /\ method # "GET" /\ err = NoErr
        /\ HasPayloadStream /\ bodyCalls # <<>>)
        => result = Return(Nil, Nil, AmbiguousErr)

C10_Witness ==
    /\ method = "POST"
    /\ err = NoErr
    /\ Len(reqCalls) = 1 /\ reqCalls[1].op = "SetStream" /\ reqCalls[1].t = "Payload"
    /\ Len(bodyCalls) = 1 /\ bodyCalls[1].op = "SetFields" /\ bodyCalls[1].t = "Body"
    /\ lastCall = bodyCalls[1]
    /\ result = Return(Nil, Nil, AmbiguousErr)

\* The caller made exactly two calls, a SetValue with target Query and a
\* SetValue with target Body, in either order, and neither latched.
QueryAndBodyScalars ==
    /\ ncalls = 2
    /\ err = NoErr
    /\ Len(Forwarded) = 2
    /\ \A i \in 1..2 : Forwarded[i].op = "SetValue"
    /\ {Forwarded[1].t, Forwarded[2].t} = {"Query", "Body"}

\* The request's query string carries every forwarded value.
QueryCarriesAll(req) ==
    \A i \in 1..Len(Forwarded) :
        \E j \in 1..Len(req.query) : req.query[j] = Param(Forwarded[i])

\* C11 as stated: under GET, after SetValue with target Query and SetValue
\* with target Body and no other call, Encode succeeds with a request whose
\* query string carries both values, and with no body.
C11_GetQueryRoundTrip ==
    (result.returned /\ method = "GET" /\ QueryAndBodyScalars)
        => (/\ result.err = NoErr
            /\ result.body = Nil
            /\ QueryCarriesAll(result.req))

\* C11 amended: the same, when both sub-encoders finalize without error.
C11_GetQueryRoundTripWhenFinalized ==
    (BothFinalized /\ method = "GET" /\ QueryAndBodyScalars)
        => (/\ result.err = NoErr
            /\ result.body = Nil
            /\ QueryCarriesAll(result.req))

C11_Witness ==
    /\ BothFinalized
    /\ method = "GET"
    /\ QueryAndBodyScalars
    /\ reqCalls[1].t = "Query" /\ reqCalls[2].t = "Body"
    /\ result.err = NoErr
    /\ result.body = Nil
    /\ Len(result.req.query) = 2

\* The operation a routing error's message names.
NamedOp(e) ==
    CASE e.fmt = "unknown SetValue restjson encode target, %s, %s" -> "SetValue"
      [] e.fmt = "invalid target %s, for SetStream, must be PayloadTarget" -> "SetStream"
      [] e.fmt = "unknown SetList restjson encode target, %s, %s" -> "SetList"
      [] e.fmt = "unknown SetMap restjson encode target, %s, %s" -> "SetMap"
      [] e.fmt = "unknown SetMarshaler restjson encode target, %s, %s" -> "SetMarshaler"
      [] OTHER -> "none"

Names(e, x) == \E i \in 1..Len(e.args) : e.args[i] = x

\* C12: the routing error latched by a Set* call names the operation that
\* was called, the offending target and the offending key.
C12_ErrorNamesOpTargetKey ==
    [][(SetStep /\ err = NoErr /\ err' # NoErr)
          => (/\ NamedOp(err') = lastCall'.op
              /\ Names(err', lastCall'.t)
              /\ Names(err', lastCall'.k))]_vars

\* C13: Encode finalizes the REST encoder first: if that fails its error is
\* returned with no request and no body and the JSON encoder is not
\* finalized; if it succeeds and the JSON encoder's finalize fails, that
\* error is returned with no request and no body.
C13_FinalizeOrder ==
    result.returned =>
        /\ reqOut.called
        /\ reqOut.err # NoErr =>
              (~jsonOut.called /\ result = Return(Nil, Nil, reqOut.err))
        /\ reqOut.err = NoErr =>
              /\ jsonOut.called
              /\ jsonOut.err # NoErr => result = Return(Nil, Nil, jsonOut.err)

C13_Witness ==
    /\ result.returned
    /\ reqOut.err = RestEncodeErr
    /\ ~jsonOut.called
    /\ result = Return(Nil, Nil, RestEncodeErr)
    /\ bodyCalls # <<>>

\* C14: once the latch holds an error no later call replaces or clears it.
C14_LatchWrittenOnce ==
    [][err # NoErr => err' = err]_vars

C14_Witness ==
    /\ ncalls = 2
    /\ err = SetStreamErr("Header", "id")
    /\ lastCall.op = "SetMap" /\ lastCall.t = "Path"

\* C15: an unlatched Set* call is forwarded exactly once to the REST
\* encoder, or exactly once to the JSON encoder, or sets the latch: exactly
\* one of the three; a forwarded call carries the caller's target, key,
\* value and metadata unchanged.
C15_ExactlyOneOutcome ==
    [][(SetStep /\ err = NoErr) =>
          LET toReq == /\ reqCalls' = Append(reqCalls, lastCall')
                       /\ bodyCalls' = bodyCalls
                       /\ err' = NoErr
              toBody == /\ bodyCalls' = Append(bodyCalls, lastCall')
                        /\ reqCalls' = reqCalls
                        /\ err' = NoErr
              latch == /\ err' # NoErr
                       /\ reqCalls' = reqCalls
                       /\ bodyCalls' = bodyCalls
          IN /\ toReq \/ toBody \/ latch
             /\ ~(toReq /\ toBody)
             /\ ~(toReq /\ latch)
             /\ ~(toBody /\ latch)]_vars

C15_Witness ==
    /\ method = "GET"
    /\ ncalls = 2
    /\ lastCall = Call("SetValue", "Body", [k |-> "name", v |-> "alice", meta |-> "m1"])
    /\ Len(reqCalls) = 2
    /\ reqCalls[2] = lastCall
    /\ bodyCalls = <<>>

\* C16: every call the JSON encoder has received is tagged Body or Payload
\* and is not a stream; every stream the REST encoder has received is tagged
\* Payload; the REST encoder has received a Body- or Payload-tagged scalar
\* only if the method is exactly GET.
C16_ReceivedTargets ==
    /\ \A i \in 1..Len(bodyCalls) :
          bodyCalls[i].t \in {"Body", "Payload"} /\ bodyCalls[i].op # "SetStream"
    /\ \A i \in 1..Len(reqCalls) :
          /\ reqCalls[i].op = "SetStream" => reqCalls[i].t = "Payload"
          /\ (reqCalls[i].op = "SetValue" /\ reqCalls[i].t \in {"Body", "Payload"})
                => method = "GET"

C16_Witness ==
    /\ method = "get"
    /\ Len(reqCalls) = 1 /\ reqCalls[1].op = "SetStream" /\ reqCalls[1].t = "Payload"
    /\ Len(bodyCalls) = 1 /\ bodyCalls[1].op = "SetValue" /\ bodyCalls[1].t = "Payload"

\* C18: no step changes the method, and Encode changes neither the method
\* nor the latch.
C18_MethodAndLatchFrame ==
    [][/\ method' = method
       /\ result' # result => err' = err]_vars

C18_Witness ==
    /\ result.returned
    /\ method = "GET"
    /\ err = SetListErr("Path", "name")
    /\ reqOut.err = NoErr

\* Where the step's call went on the first Encoder.
Observed ==
    IF reqCalls' # reqCalls THEN "reqEncoder"
    ELSE IF bodyCalls' # bodyCalls THEN "bodyEncoder"
    ELSE IF err' # err THEN "default"
    ELSE "noop"

\* C17: two runs of the same sequence of (operation, target) pairs under the
\* same method, differing only in keys, values and metadata, send each call
\* to the same destination and latch at the same call.
C17_RoutingIgnoresContent ==
    [][SetStep =>
          /\ Last(twin'.dests) = Observed
          /\ (err' # NoErr) = (twin'.err # NoErr)]_vars

C17_Witness ==
    /\ ncalls = 2
    /\ lastCall.op = "SetValue" /\ lastCall.t = "Body"
    /\ twin.lastCall.op = lastCall.op /\ twin.lastCall.t = lastCall.t
    /\ twin.lastCall.k # lastCall.k
    /\ twin.lastCall.v # lastCall.v
    /\ twin.lastCall.meta # lastCall.meta
    /\ twin.dests = <<"reqEncoder", "bodyEncoder">>
    /\ Len(reqCalls) = 1
    /\ bodyCalls = <<lastCall>>

====
